---- MODULE Spec2Model ----
(***************************************************************************)
(* sequence: run every executable of a directory in strcmp order, relay   *)
(* each child's stderr line by line, stop at the first failure.           *)
(* Model of main() in src/sequence.c together with the child processes    *)
(* and the stderr pipe it creates.  Strings are sequences of byte values. *)
(***************************************************************************)
EXTENDS Integers, Sequences, FiniteSets, TLC

\* ---- bounds of the model ----
MaxEntries == 2        \* at most this many directory entries are enumerated
MaxBytes == 2          \* bytes written to stderr by all children of a run
PipeCap == 2           \* capacity of the stderr pipe (a write blocks when full)
MaxEintr == 1          \* interrupted waitpid calls while waiting for one child

\* ---- program constants ----
EXIT_SUCCESS == 0
EXIT_FAILURE == 1
EX_OSERR == 71
ErrbufSize == 1024
NL == 10
NUL == 0
DOT == 46
SLASH == 47

\* ---- inputs ----
\* "10", "2", "9" and the dot file ".h"
NameUniverse == { <<49, 48>>, <<50>>, <<57>>, <<DOT, 104>> }
\* the directory argument: "d"
DirNames == { <<100>> }
\* the arguments that follow the directory on the command line: "s" "t"
PassArgs == { << <<115>>, <<116>> >> }
\* bytes a child writes to its stderr: newline, "x"
StreamBytes == { NL, 120 }
\* what execv can do
ExecResults == { "ok", "EACCES", "ENOENT" }
\* raw wait statuses of a terminated child: exit 0, exit 3, SIGKILL
RawStatuses == { 0, 3 * 256, 9 }
\* text the child prints when execv failed, abbreviated: "E\n"
ExecFailMsg == <<69, NL>>
\* status of a child killed by SIGPIPE
SigpipeStatus == 13
\* priorities the log option can name (syslog_decode over prioritynames):
\* "info"
LOG_INFO == 6
LogLevels == { LOG_INFO }

\* every enumeration order of every set of at most MaxEntries names
RECURSIVE Listings(_)
Listings(n) ==
    IF n = 0 THEN { <<>> }
    ELSE LET shorter == Listings(n - 1)
         IN  shorter \cup
             { Append(l, x) : l \in { s \in shorter : Len(s) = n - 1 },
                              x \in NameUniverse }

Range(s) == { s[k] : k \in 1..Len(s) }
NoDup(s) == \A a, b \in 1..Len(s) : s[a] = s[b] => a = b
DirListings == { l \in Listings(MaxEntries) : NoDup(l) }

Min(a, b) == IF a < b THEN a ELSE b

\* ---- pure functions of the program ----

\* strcmp: unsigned byte-wise comparison, the terminating NUL sorts first
RECURSIVE strcmp(_, _)
strcmp(a, b) ==
    IF a = <<>> /\ b = <<>> THEN 0
    ELSE IF a = <<>> THEN -1
    ELSE IF b = <<>> THEN 1
    ELSE IF a[1] < b[1] THEN -1
    ELSE IF a[1] > b[1] THEN 1
    ELSE strcmp(Tail(a), Tail(b))

\* comparator with the arguments swapped
sort_strcmp_swapped(p1, p2) == strcmp(p2, p1)

\* return strcmp(*(const char **) p1, *(const char **) p2)
sort_strcmp(p1, p2) == strcmp(p1, p2)

\* qsort(names, count, ..., sort_strcmp): insertion of each element into the
\* sorted result by the comparator
RECURSIVE InsertSorted(_, _)
InsertSorted(x, s) ==
    IF s = <<>> THEN <<x>>
    ELSE IF sort_strcmp(x, s[1]) <= 0 THEN <<x>> \o s
    ELSE <<s[1]>> \o InsertSorted(x, Tail(s))

RECURSIVE qsort(_)
qsort(s) == IF s = <<>> THEN <<>> ELSE InsertSorted(s[1], qsort(Tail(s)))

\* the dot file test that never matches
IsDotFile_never(d_name) == FALSE

\* de->d_name[0] == '.'
IsDotFile(d_name) == d_name # <<>> /\ d_name[1] = DOT

\* sprintf(buf, "%s/%s", dirname, names[i])
FullPath(dirname, nm) == dirname \o <<SLASH>> \o nm

\* terminator that ignores the flag
Terminator_newline(z) == NL

\* print mode: "%s%c" with 0, or "%s\n"
Terminator(z) == IF z THEN NUL ELSE NL

\* <sys/wait.h> decoding of a raw status
WTERMSIG(st) == st % 128

\* the exit test that holds of every status
WIFEXITED_always(st) == TRUE

WIFEXITED(st) == WTERMSIG(st) = 0

\* the exit status taken to be the raw status
WEXITSTATUS_raw(st) == st

WEXITSTATUS(st) == (st \div 256) % 256

\* the signal test that takes a stopped process for a killed one
WIFSIGNALED_stopped(st) == WTERMSIG(st) # 0

WIFSIGNALED(st) == WTERMSIG(st) # 0 /\ WTERMSIG(st) # 127

\* signal exit code without the offset
SignalExit_plain(st) == WTERMSIG(st)

\* return WTERMSIG(status) + 128
SignalExit(st) == WTERMSIG(st) + 128

\* exit status of main(): the low eight bits of its return value
ExitStatus(ret) == ret % 256

\* child after a failed execv, the ignore flag not consulted
ExecFailReturn_noflag(ign, errno) ==
    IF errno = "EACCES" THEN EXIT_SUCCESS ELSE EXIT_FAILURE

\* child after a failed execv, the flag recovering every errno
ExecFailReturn_anyerrno(ign, errno) ==
    IF ign THEN EXIT_SUCCESS ELSE EXIT_FAILURE

\* child after a failed execv: ignore && errno == EACCES
ExecFailReturn(ign, errno) ==
    IF ign /\ errno = "EACCES" THEN EXIT_SUCCESS ELSE EXIT_FAILURE

\* argument vector that starts one slot too late
ChildArgv_shifted(slot, rest) == rest

\* argv + optind: the slot of the directory argument, then the arguments
\* that follow it on the command line
ChildArgv(slot, rest) == <<slot>> \o rest

\* the for loop over one chunk read into errbuf: lines cut at each '\n',
\* then the overflow after the last '\n' as a line of its own
RECURSIVE RelayLoop(_, _, _, _)
RelayLoop(errbuf, k, s, acc) ==
    IF k > Len(errbuf)
    THEN IF s <= Len(errbuf)
         THEN Append(acc, SubSeq(errbuf, s, Len(errbuf)))
         ELSE acc
    ELSE IF errbuf[k] = NL
         THEN RelayLoop(errbuf, k + 1, k + 1, Append(acc, SubSeq(errbuf, s, k - 1)))
         ELSE RelayLoop(errbuf, k + 1, s, acc)

RelayChunk(errbuf) == RelayLoop(errbuf, 1, 1, <<>>)

\* ---- state ----
VARIABLES
    dir,        \* what the directory stream has yet to return, in order
    dirname,    \* argv[optind] as given on the command line
    passargs,   \* argv[optind + 1 ..]
    zero, ignore, print, slog,     \* option flags
    level,      \* syslog priority given with the log option
    dh,         \* the directory stream: "open" or "closed"
    names,      \* names[0 .. count - 1]
    pc,         \* where main() is: "readdir", "loop", "relay", "wait",
                \* "decode", "done"
    i,          \* index of the for loop, counted from 1
    argvslot,   \* argv[optind] during the loop: a path, or NullPtr
    f,          \* pid returned by the last fork, 0 before the first
    status,     \* status stored by waitpid
    child,      \* pid -> process the kernel still holds (running or zombie),
                \* with its pipe and the bytes it has written into it
    nbytes,     \* bytes written by all children so far
    logtag,     \* ident of the open syslog channel, or NoIdent
    logops,     \* the openlog and closelog calls made so far, in order
    stdout,     \* bytes written to standard output
    errout,     \* what main() wrote to its own stderr, in order
    syslogged,  \* lines handed to syslog, in order
    exitCode,   \* exit status of the sequencer, -1 while it runs
    \* history of the run, read by the properties only
    handled,    \* names spawned or printed, in order
    outcomes,   \* how each entry of the loop ended, in order
    relayEnd,   \* how the read loop for child f ended: "eof" or "error"
    dropped,    \* bytes written into a pipe and still unread when main()
                \* closed its read end
    execRes,    \* result of execv in the last child
    reaped,     \* what waitpid has returned: pid and status, in order
    skipped,    \* indexes skipped by the print mode check
    eintr,      \* interrupted waitpid calls for child f so far
    enumerated, \* the names readdir has returned
    readdirFailed   \* readdir returned NULL before the end of the directory

inputs == <<dirname, passargs, zero, ignore, print, slog, level>>
listing == <<dir, dh, names, enumerated, readdirFailed>>
control == <<pc, i, argvslot, f, status, exitCode>>
procs == <<child, nbytes, execRes>>
sinks == <<logtag, logops, stdout, errout, syslogged>>
history == <<handled, outcomes, relayEnd, dropped, reaped, skipped, eintr>>
vars == <<inputs, listing, control, procs, sinks, history>>

count == Len(names)
NoPid == 0
\* argv[optind] = NULL: the slot holds no path
NullPtr == <<>>
\* no syslog channel is open
NoIdent == <<>>

\* state after option parsing and fdopendir (lines 197-321)
Init ==
    /\ dir \in DirListings
    /\ dirname \in DirNames
    /\ passargs \in PassArgs
    /\ zero \in BOOLEAN
    /\ ignore \in BOOLEAN
    /\ print \in BOOLEAN
    /\ slog \in BOOLEAN
    /\ level \in (IF slog THEN LogLevels ELSE {0})
    /\ enumerated = {}
    /\ dh = "open"
    /\ names = <<>>
    /\ pc = "readdir"
    /\ i = 1
    /\ argvslot = dirname
    /\ f = NoPid
    /\ status = 0
    /\ child = <<>>
    /\ logtag = NoIdent
    /\ logops = <<>>
    /\ stdout = <<>>
    /\ errout = <<>>
    /\ syslogged = <<>>
    /\ exitCode = -1
    /\ handled = <<>>
    /\ outcomes = <<>>
    /\ nbytes = 0
    /\ relayEnd = "none"
    /\ dropped = 0
    /\ execRes = "none"
    /\ reaped = <<>>
    /\ skipped = {}
    /\ eintr = 0
    /\ readdirFailed = FALSE

\* ---- directory listing (lines 323-342) ----

\* one iteration of while ((de = readdir(dh)))
ReaddirEntry ==
    /\ pc = "readdir"
    /\ dir # <<>>
    /\ dir' = Tail(dir)
    /\ enumerated' = enumerated \cup {Head(dir)}
    /\ names' = IF IsDotFile(Head(dir)) THEN names
                ELSE Append(names, Head(dir))
    /\ UNCHANGED <<inputs, dh, readdirFailed, control, procs, sinks, history>>

\* readdir returns NULL at the end of the directory; closedir; qsort
ReaddirEnd ==
    /\ pc = "readdir"
    /\ dir = <<>>
    /\ dh' = "closed"
    /\ names' = qsort(names)
    /\ pc' = "loop"
    /\ UNCHANGED <<inputs, dir, enumerated, readdirFailed, i, argvslot, f, status,
                   exitCode, procs, sinks, history>>

\* readdir returns NULL with errno set: the loop cannot tell it from the end
ReaddirError ==
    /\ pc = "readdir"
    /\ dir # <<>>
    /\ readdirFailed' = TRUE
    /\ dir' = <<>>
    /\ dh' = "closed"
    /\ names' = qsort(names)
    /\ pc' = "loop"
    /\ UNCHANGED <<inputs, enumerated, i, argvslot, f, status, exitCode, procs,
                   sinks, history>>

\* ---- the for loop (lines 344-537) ----

buf == FullPath(dirname, names[i])

Report(kind, what) == [src |-> "sequence", kind |-> kind, tag |-> what]
Line(tag, text) == [src |-> "relay", tag |-> tag, text |-> text]
\* syslog(level, "%.*s\n", ...) under the ident given to openlog
LogLine(tag, lvl, text) ==
    [src |-> "relay", tag |-> tag, level |-> lvl, text |-> text]

\* i == count: return EXIT_SUCCESS
LoopExit ==
    /\ pc = "loop"
    /\ i > count
    /\ exitCode' = ExitStatus(EXIT_SUCCESS)
    /\ pc' = "done"
    /\ UNCHANGED <<inputs, listing, i, argvslot, f, status, procs, sinks,
                   history>>

\* print mode (lines 352-379, 532-534); with ignore the entry is printed only
\* if fstatat succeeds, it is a regular file and faccessat allows X_OK
PrintEntry ==
    /\ pc = "loop"
    /\ i <= count
    /\ print
    /\ \E pass \in BOOLEAN :
         /\ ~ignore => pass
         /\ IF ignore /\ ~pass
            THEN /\ argvslot' = buf
                 /\ skipped' = skipped \cup {i}
                 /\ UNCHANGED <<stdout, handled>>
            ELSE /\ stdout' = stdout \o buf \o <<Terminator(zero)>>
                 /\ argvslot' = NullPtr
                 /\ handled' = Append(handled, names[i])
                 /\ UNCHANGED skipped
    /\ i' = i + 1
    /\ UNCHANGED <<inputs, listing, pc, f, status, exitCode, procs, logtag, logops,
                   errout, syslogged, outcomes, relayEnd, dropped, reaped, eintr>>

Halt(code, kind, nm) ==
    /\ errout' = Append(errout, Report(kind, nm))
    /\ exitCode' = ExitStatus(code)
    /\ pc' = "done"

\* pipe(errpair) fails (lines 387-392)
SpawnPipeFail ==
    /\ pc = "loop"
    /\ i <= count
    /\ ~print
    /\ argvslot' = buf
    /\ Halt(EXIT_FAILURE, "pipe", buf)
    /\ outcomes' = Append(outcomes, "PipeFail")
    /\ UNCHANGED <<inputs, listing, i, f, status, procs, logtag, logops, stdout,
                   syslogged, handled, relayEnd, dropped, reaped, skipped, eintr>>

\* fork() fails (lines 397-405)
SpawnForkFail ==
    /\ pc = "loop"
    /\ i <= count
    /\ ~print
    /\ argvslot' = buf
    /\ Halt(EXIT_FAILURE, "fork", buf)
    /\ outcomes' = Append(outcomes, "ForkFail")
    /\ UNCHANGED <<inputs, listing, i, f, status, procs, logtag, logops, stdout,
                   syslogged, handled, relayEnd, dropped, reaped, skipped, eintr>>

\* pipe and fork succeed; the parent closes its write end and opens the log
\* (lines 387-434).  The new process gets pid i and its own copy of
\* names[i] and of argv + optind.
Spawn ==
    /\ pc = "loop"
    /\ i <= count
    /\ ~print
    /\ i \notin DOMAIN child
    /\ argvslot' = buf
    /\ f' = i
    /\ child' = child @@ (i :> [st |-> "forked", status |-> 0, wrOpen |-> TRUE,
                                 rdOpen |-> TRUE, pipe |-> <<>>,
                                 written |-> <<>>, path |-> names[i],
                                 argv |-> ChildArgv(buf, passargs)])
    /\ execRes' = "none"
    /\ relayEnd' = "none"
    /\ eintr' = 0
    /\ logtag' = IF slog THEN buf ELSE logtag
    /\ logops' = IF slog THEN Append(logops, "openlog") ELSE logops
    /\ handled' = Append(handled, names[i])
    /\ pc' = "relay"
    /\ UNCHANGED <<inputs, listing, i, status, exitCode, nbytes, stdout,
                   errout, syslogged, outcomes, dropped, reaped, skipped>>

\* ---- the child process (lines 407-424, then the executed program) ----

\* the process ends: the kernel keeps it as a zombie and closes its stderr
Terminate(p, st) ==
    [child EXCEPT ![p].st = "zombie", ![p].status = st, ![p].wrOpen = FALSE]

\* dup2, close, close, execv(names[i], argv + optind); when execv returns,
\* the child leaves main() with 0 (ignore && EACCES) or prints and leaves
\* with EXIT_FAILURE.  Printing into a pipe whose read end is closed raises
\* SIGPIPE, which kills the child unless the signal is ignored.
ChildExec(p) ==
    /\ child[p].st = "forked"
    /\ \E r \in ExecResults :
         /\ execRes' = r
         /\ IF r = "ok"
            THEN child' = [child EXCEPT ![p].st = "running"]
            ELSE IF ExecFailReturn(ignore, r) = EXIT_SUCCESS
            THEN child' = Terminate(p, 256 * EXIT_SUCCESS)
            ELSE IF child[p].rdOpen
            THEN child' = [Terminate(p, 256 * EXIT_FAILURE) EXCEPT
                             ![p].pipe = @ \o ExecFailMsg,
                             ![p].written = @ \o ExecFailMsg]
            ELSE \E st \in {256 * EXIT_FAILURE, SigpipeStatus} :
                     child' = Terminate(p, st)
    /\ UNCHANGED <<inputs, listing, control, nbytes, sinks, history>>

\* the executed program writes one byte to its stderr; the write blocks
\* while the pipe is full and fails once the read end is closed
ChildWrite(p) ==
    /\ child[p].st = "running"
    /\ child[p].wrOpen
    /\ child[p].rdOpen
    /\ Len(child[p].pipe) < PipeCap
    /\ nbytes < MaxBytes
    /\ nbytes' = nbytes + 1
    /\ \E b \in StreamBytes :
         child' = [child EXCEPT ![p].pipe = Append(@, b),
                                ![p].written = Append(@, b)]
    /\ UNCHANGED <<inputs, listing, control, execRes, sinks, history>>

\* the executed program closes its stderr and keeps running
ChildCloseStderr(p) ==
    /\ child[p].st = "running"
    /\ child[p].wrOpen
    /\ child' = [child EXCEPT ![p].wrOpen = FALSE]
    /\ UNCHANGED <<inputs, listing, control, nbytes, execRes, sinks, history>>

\* the executed program exits or is killed
ChildExit(p) ==
    /\ child[p].st = "running"
    /\ \E st \in RawStatuses : child' = Terminate(p, st)
    /\ UNCHANGED <<inputs, listing, control, nbytes, execRes, sinks, history>>

\* ---- the parent: relay of the child's stderr (lines 436-476) ----

\* lines of one chunk go to syslog under the open ident, or to stderr
\* prefixed with argv[optind]
Forward(chunk) ==
    LET lines == RelayChunk(chunk)
        asLog == [k \in 1..Len(lines) |-> LogLine(logtag, level, lines[k])]
        asErr == [k \in 1..Len(lines) |-> Line(argvslot, lines[k])]
    IN  IF slog
        THEN /\ syslogged' = syslogged \o asLog
             /\ UNCHANGED errout
        ELSE /\ errout' = errout \o asErr
             /\ UNCHANGED syslogged

\* the loop left with the read end of the pipe still open
LeaveRelay_noclose(how) ==
    /\ logtag' = IF slog THEN NoIdent ELSE logtag
    /\ logops' = IF slog THEN Append(logops, "closelog") ELSE logops
    /\ dropped' = dropped
    /\ child' = child
    /\ relayEnd' = how
    /\ pc' = "wait"

\* the loop left with the log channel still open
LeaveRelay_nocloselog(how) ==
    /\ logtag' = logtag
    /\ logops' = logops
    /\ dropped' = IF f \in DOMAIN child THEN dropped + Len(child[f].pipe)
                  ELSE dropped
    /\ child' = IF f \in DOMAIN child
                THEN [child EXCEPT ![f].rdOpen = FALSE, ![f].pipe = <<>>]
                ELSE child
    /\ relayEnd' = how
    /\ pc' = "wait"

\* break; closelog(); close(errpair[READ_FD])
LeaveRelay(how) ==
    /\ logtag' = IF slog THEN NoIdent ELSE logtag
    /\ logops' = IF slog THEN Append(logops, "closelog") ELSE logops
    /\ dropped' = IF f \in DOMAIN child THEN dropped + Len(child[f].pipe)
                  ELSE dropped
    /\ child' = IF f \in DOMAIN child
                THEN [child EXCEPT ![f].rdOpen = FALSE, ![f].pipe = <<>>]
                ELSE child
    /\ relayEnd' = how
    /\ pc' = "wait"

\* read() returns n > 0 bytes: everything in the pipe, up to sizeof(errbuf)
RelayRead ==
    /\ pc = "relay"
    /\ Len(child[f].pipe) > 0
    /\ LET n == Min(Len(child[f].pipe), ErrbufSize)
       IN  /\ Forward(SubSeq(child[f].pipe, 1, n))
           /\ child' = [child EXCEPT
                          ![f].pipe = SubSeq(@, n + 1, Len(@))]
    /\ UNCHANGED <<inputs, listing, control, nbytes, execRes, logtag, logops, stdout,
                   history>>

\* read() returns 0: the pipe is empty and no write end is open
RelayEof ==
    /\ pc = "relay"
    /\ Len(child[f].pipe) = 0
    /\ ~child[f].wrOpen
    /\ LeaveRelay("eof")
    /\ UNCHANGED <<inputs, listing, i, argvslot, f, status, exitCode, nbytes,
                   execRes, stdout, errout, syslogged, handled, outcomes,
                   reaped, skipped, eintr>>

\* read() returns -1 (EINTR or any other error): n <= 0 leaves the loop too
RelayReadError ==
    /\ pc = "relay"
    /\ LeaveRelay("error")
    /\ UNCHANGED <<inputs, listing, i, argvslot, f, status, exitCode, nbytes,
                   execRes, stdout, errout, syslogged, handled, outcomes,
                   reaped, skipped, eintr>>

\* ---- the parent: waitpid and decoding (lines 478-535) ----

\* waitpid(f, &status, 0) returns f only when the child has terminated
Terminated_always(c) == TRUE

Terminated(c) == c.st = "zombie"

\* the kernel releases a zombie when it is waited for
Release(p) ==
    IF child[p].st = "zombie"
    THEN [q \in DOMAIN child \ {p} |-> child[q]]
    ELSE child

\* w == f: the loop ends with the status
WaitpidReturn ==
    /\ pc = "wait"
    /\ f \in DOMAIN child
    /\ Terminated(child[f])
    /\ status' = child[f].status
    /\ child' = Release(f)
    /\ reaped' = Append(reaped, [pid |-> f, status |-> child[f].status])
    /\ pc' = "decode"
    /\ UNCHANGED <<inputs, listing, i, argvslot, f, exitCode, nbytes, execRes,
                   sinks, handled, outcomes, relayEnd, dropped, skipped, eintr>>

\* the test of the do loop that gives up on every failure
GivesUp_always(errno) == TRUE

\* w == -1 && errno != EINTR: break
GivesUp(errno) == errno # "EINTR"

\* waitpid returns -1: either break, report with strerror(errno) and return
\* EXIT_FAILURE, or w != f and waitpid is called again
WaitpidError(errno) ==
    /\ pc = "wait"
    /\ IF GivesUp(errno)
       THEN /\ errout' = Append(errout, [src |-> "sequence", kind |-> "waitpid",
                                         tag |-> argvslot, err |-> errno])
            /\ exitCode' = ExitStatus(EXIT_FAILURE)
            /\ pc' = "done"
            /\ outcomes' = Append(outcomes, "WaitFail")
            /\ UNCHANGED eintr
       ELSE /\ eintr < MaxEintr
            /\ eintr' = eintr + 1
            /\ UNCHANGED <<errout, exitCode, pc, outcomes>>
    /\ UNCHANGED <<inputs, listing, i, argvslot, f, status, procs, logtag,
                   logops, stdout, syslogged, handled, relayEnd, dropped,
                   reaped, skipped>>

\* errno is EINTR
WaitpidEintr == WaitpidError("EINTR")

\* errno is another error, for instance ECHILD
WaitpidFail == WaitpidError("ECHILD")

\* the if chain on status (lines 495-526), then free(buf) and
\* argv[optind] = NULL (lines 532-534)
Decode ==
    /\ pc = "decode"
    /\ IF WIFEXITED(status) /\ WEXITSTATUS(status) = EXIT_SUCCESS
       THEN /\ argvslot' = NullPtr
            /\ i' = i + 1
            /\ pc' = "loop"
            /\ outcomes' = Append(outcomes, "Success")
            /\ UNCHANGED <<errout, exitCode>>
       ELSE IF WIFEXITED(status)
       THEN /\ Halt(WEXITSTATUS(status), "returned", argvslot)
            /\ outcomes' = Append(outcomes, "ExitCode")
            /\ UNCHANGED <<argvslot, i>>
       ELSE IF WIFSIGNALED(status)
       THEN /\ Halt(SignalExit(status), "signaled", argvslot)
            /\ outcomes' = Append(outcomes, "Signaled")
            /\ UNCHANGED <<argvslot, i>>
       ELSE /\ Halt(EX_OSERR, "failed", argvslot)
            /\ outcomes' = Append(outcomes, "Abnormal")
            /\ UNCHANGED <<argvslot, i>>
    /\ eintr' = 0
    /\ UNCHANGED <<inputs, listing, f, status, procs, logtag, logops, stdout,
                   syslogged, handled, relayEnd, dropped, reaped, skipped>>

\* the processes are followed until the sequencer has exited
ChildStep ==
    /\ pc # "done"
    /\ \E p \in DOMAIN child :
         \/ ChildExec(p)
         \/ ChildWrite(p)
         \/ ChildCloseStderr(p)
         \/ ChildExit(p)

Next ==
    \/ ReaddirEntry
    \/ ReaddirEnd
    \/ ReaddirError
    \/ LoopExit
    \/ PrintEntry
    \/ SpawnPipeFail
    \/ SpawnForkFail
    \/ Spawn
    \/ ChildStep
    \/ RelayRead
    \/ RelayEof
    \/ RelayReadError
    \/ WaitpidReturn
    \/ WaitpidEintr
    \/ WaitpidFail
    \/ Decode

Spec == Init /\ [][Next]_vars

\* ---- scheduling ----

\* the statements main() executes when no call fails: a sequential
\* program takes its next step
ParentStep ==
    \/ ReaddirEntry
    \/ ReaddirEnd
    \/ LoopExit
    \/ PrintEntry
    \/ Spawn
    \/ RelayRead
    \/ RelayEof
    \/ WaitpidReturn
    \/ Decode

\* main() keeps running, and so does every child until it has terminated
Fairness == WF_vars(ParentStep) /\ WF_vars(ChildStep)

SpecFair == Init /\ [][Next]_vars /\ Fairness

\* ---- the decoding of a wait status on its own (lines 495-535) ----

\* the statuses handed to the if chain: every low byte under the exit
\* codes 0, 1, 19 and 255 of the high byte
DecodeCodes == { 0, 1, 19, 255 }
DecodeStatuses == { hi * 256 + lo : hi \in DecodeCodes, lo \in 0..255 }

\* main() after waitpid has returned for the first of the entries "2" and
\* "9", with any of the statuses
InitDecode ==
    /\ dir = <<>>
    /\ dirname \in DirNames
    /\ passargs \in PassArgs
    /\ zero = FALSE
    /\ ignore = FALSE
    /\ print = FALSE
    /\ slog = FALSE
    /\ level = 0
    /\ enumerated = { <<50>>, <<57>> }
    /\ dh = "closed"
    /\ names = << <<50>>, <<57>> >>
    /\ pc = "decode"
    /\ i = 1
    /\ argvslot = FullPath(dirname, <<50>>)
    /\ f = 1
    /\ status \in DecodeStatuses
    /\ child = <<>>
    /\ logtag = NoIdent
    /\ logops = <<>>
    /\ stdout = <<>>
    /\ errout = <<>>
    /\ syslogged = <<>>
    /\ exitCode = -1
    /\ handled = << <<50>> >>
    /\ outcomes = <<>>
    /\ nbytes = 0
    /\ relayEnd = "eof"
    /\ dropped = 0
    /\ execRes = "ok"
    /\ reaped = << [pid |-> 1, status |-> status] >>
    /\ skipped = {}
    /\ eintr = 0
    /\ readdirFailed = FALSE

\* the status is decoded; the loop goes on to the next fork if it may
NextDecode ==
    \/ Decode
    \/ Spawn

SpecDecode == InitDecode /\ [][NextDecode]_vars

TypeOK ==
    /\ pc \in {"readdir", "loop", "relay", "wait", "decode", "done"}
    /\ exitCode \in -1..255
    /\ (pc = "done") = (exitCode # -1)

\* ---- definitions used by the properties ----

IsPrefix(s, t) == Len(s) <= Len(t) /\ s = SubSeq(t, 1, Len(s))

\* strictly increasing in unsigned byte-wise order
RECURSIVE BytesLess(_, _)
BytesLess(a, b) ==
    IF b = <<>> THEN FALSE
    ELSE IF a = <<>> THEN TRUE
    ELSE IF a[1] # b[1] THEN a[1] < b[1]
    ELSE BytesLess(Tail(a), Tail(b))

Increasing(s) == \A a, b \in 1..Len(s) : a < b => BytesLess(s[a], s[b])

\* the entries of names[1..n] that the print mode check did not skip
RECURSIVE Kept(_)
Kept(n) ==
    IF n = 0 THEN <<>>
    ELSE IF n \in skipped THEN Kept(n - 1)
    ELSE Append(Kept(n - 1), names[n])

\* the text of the lines relayed under a tag, in order
RECURSIVE TextsOf(_, _)
TextsOf(out, tag) ==
    IF out = <<>> THEN <<>>
    ELSE IF Head(out).src = "relay" /\ Head(out).tag = tag
         THEN <<Head(out).text>> \o TextsOf(Tail(out), tag)
         ELSE TextsOf(Tail(out), tag)

PathOf(p) == dirname \o <<47>> \o names[p]
RelayedFor(p) == TextsOf(IF slog THEN syslogged ELSE errout, PathOf(p))

\* a stream cut at each newline; bytes after the last newline are a last line
RECURSIVE SplitOnNewline(_, _)
SplitOnNewline(stream, cur) ==
    IF stream = <<>> THEN (IF cur = <<>> THEN <<>> ELSE <<cur>>)
    ELSE IF Head(stream) = 10
         THEN <<cur>> \o SplitOnNewline(Tail(stream), <<>>)
         ELSE SplitOnNewline(Tail(stream), Append(cur, Head(stream)))

\* the bytes after the last newline of a stream
RECURSIVE AfterLastNewline(_)
AfterLastNewline(stream) ==
    IF stream = <<>> THEN <<>>
    ELSE IF stream[Len(stream)] = 10 THEN <<>>
    ELSE Append(AfterLastNewline(SubSeq(stream, 1, Len(stream) - 1)),
                stream[Len(stream)])

Newlines(stream) == Cardinality({ k \in 1..Len(stream) : stream[k] = 10 })

\* a status that is a normal exit with a code in 1..255, and the code
ExitedNonzero(st) == st % 256 = 0 /\ (st \div 256) \in 1..255
CodeOf(st) == st \div 256

\* a status that is a death by signal (with or without a core), and the signal
Killed(st) == st < 256 /\ (st % 128) \in 1..126
SignalOf(st) == st % 128

\* C1: whenever an entry has been spawned or printed, the directory stream
\* is closed, names holds every non-dot name readdir returned, in strictly
\* increasing byte-wise order, and the entries handled so far are the first
\* entries of names, in that order (less those the print mode check skipped).
C1_SortedOrder ==
    handled # <<>> =>
        /\ dh = "closed"
        /\ pc # "readdir"
        /\ Increasing(names)
        /\ Range(names) = { n \in enumerated : n[1] # 46 }
        /\ Increasing(handled)
        /\ IF print THEN handled = Kept(i - 1)
           ELSE IsPrefix(handled, names) /\ Len(handled) \in {i - 1, i}

\* "10" and "9" both handled, "10" first
C1_Witness ==
    /\ pc = "done"
    /\ ~print
    /\ handled = << <<49, 48>>, <<57>> >>

\* C2: no name that begins with '.' is ever listed, spawned, executed or
\* printed, whatever the option flags.
C2_NoDotFiles ==
    /\ \A n \in Range(names) \cup Range(handled) : n[1] # 46
    /\ \A p \in DOMAIN child : child[p].path[1] # 46 /\ child[p].argv[1][3] # 46

\* the directory held ".h", and another entry was run to the end
C2_Witness ==
    /\ <<46, 104>> \in enumerated
    /\ pc = "done"
    /\ ignore /\ slog /\ ~print
    /\ Len(handled) = 1
    /\ exitCode = 0

\* C3: once waitpid has returned a status that is a normal exit with code
\* n in 1..255 and the status has been decoded, the sequencer has exited
\* with n and that child's entry is the last one spawned.
C3_ExitCodePropagates ==
    \A k \in 1..Len(reaped) :
        (ExitedNonzero(reaped[k].status) /\ ~(k = Len(reaped) /\ pc = "decode"))
        => /\ pc = "done"
           /\ exitCode = CodeOf(reaped[k].status)
           /\ Len(handled) = reaped[k].pid
           /\ DOMAIN child = {}

\* the first of two entries exited with 3
C3_Witness ==
    /\ pc = "done"
    /\ exitCode = 3
    /\ Len(names) = 2
    /\ handled = <<names[1]>>
    /\ reaped = << [pid |-> 1, status |-> 768] >>

\* C4: once waitpid has returned a status that is a death by signal sg and
\* the status has been decoded, the sequencer has exited with sg + 128 and
\* that child's entry is the last one spawned.
C4_SignalPropagates ==
    \A k \in 1..Len(reaped) :
        (Killed(reaped[k].status) /\ ~(k = Len(reaped) /\ pc = "decode"))
        => /\ pc = "done"
           /\ exitCode = SignalOf(reaped[k].status) + 128
           /\ Len(handled) = reaped[k].pid
           /\ DOMAIN child = {}

\* the first of two entries was killed by signal 9
C4_Witness ==
    /\ pc = "done"
    /\ exitCode = 137
    /\ Len(names) = 2
    /\ handled = <<names[1]>>
    /\ reaped = << [pid |-> 1, status |-> 9] >>

\* the entry of the last child has been decoded
Decoded == f # NoPid /\ Len(outcomes) = f /\ outcomes[f] # "WaitFail"

\* what main() itself reported about a path
ReportsOn(path) ==
    { k \in 1..Len(errout) : errout[k].src = "sequence" /\ errout[k].tag = path }

C6_TrailingFlush ==
    (pc = "wait" /\ relayEnd = "eof" /\ f \in DOMAIN child
        /\ child[f].st = "zombie"
        /\ AfterLastNewline(child[f].written) # <<>>)
    => /\ RelayedFor(f) # <<>>
       /\ RelayedFor(f)[Len(RelayedFor(f))] = AfterLastNewline(child[f].written)
       /\ Len(RelayedFor(f)) = Newlines(child[f].written) + 1

\* C7: when a child's stream has been relayed to end-of-stream, the lines
\* relayed for it are the bytes it wrote, cut at each newline.
C7_ChunkIndependent ==
    (pc = "wait" /\ relayEnd = "eof" /\ f \in DOMAIN child)
    => RelayedFor(f) = SplitOnNewline(child[f].written, <<>>)

\* the output of print mode for names[1..n], every entry printed
RECURSIVE PrintedAll(_)
PrintedAll(n) ==
    IF n = 0 THEN <<>>
    ELSE PrintedAll(n - 1) \o dirname \o <<47>> \o names[n]
         \o <<IF zero THEN 0 ELSE 10>>

\* the same, less the entries the check skipped
RECURSIVE PrintedKept(_)
PrintedKept(n) ==
    IF n = 0 THEN <<>>
    ELSE IF n \in skipped THEN PrintedKept(n - 1)
    ELSE PrintedKept(n - 1) \o dirname \o <<47>> \o names[n]
         \o <<IF zero THEN 0 ELSE 10>>

NothingSpawned == f = NoPid /\ DOMAIN child = {} /\ reaped = <<>>

\* C8 as stated: in print mode standard output is the path and terminator
\* of every entry, nothing is spawned and the exit status is 0.
C8_PrintsEveryEntry ==
    print =>
        /\ NothingSpawned
        /\ pc = "done" => stdout = PrintedAll(Len(names)) /\ exitCode = 0

\* C8 amended: in print mode standard output is the path and terminator of
\* every entry that the check made under the ignore flag did not skip, in
\* sorted order; without the ignore flag no entry is skipped; nothing is
\* spawned and the exit status is 0.
C8_PrintOutput ==
    print =>
        /\ NothingSpawned
        /\ ~ignore => skipped = {}
        /\ pc = "loop" => stdout = PrintedKept(i - 1)
        /\ pc = "done" => stdout = PrintedKept(Len(names)) /\ exitCode = 0

\* zero and ignore set, "10" skipped by the check: the output is "d/9" NUL
C8_Witness ==
    /\ print /\ zero /\ ignore
    /\ pc = "done"
    /\ names = << <<49, 48>>, <<57>> >>
    /\ skipped = {1}
    /\ stdout = <<100, 47, 57, 0>>

\* exit status that a raw wait status stands for
StatusResult(st) == IF st % 128 = 0 THEN st \div 256 ELSE (st % 128) + 128

\* C9: entries are spawned once each, in the order of names, every entry
\* before the last spawned one was reaped with exit code 0, and the
\* sequencer exits 0 only after every entry was spawned and reaped with
\* exit code 0 (or in print mode); when it exits with another status, that
\* is the status of the entry the loop stopped at: the one its wait status
\* stands for, or 1 when pipe, fork or waitpid failed.
C9_FirstFailureWins ==
    ~print =>
        /\ IsPrefix(handled, names)
        /\ f = Len(handled)
        /\ Len(reaped) \in {Len(handled) - 1, Len(handled)}
        /\ \A k \in 1..Len(reaped) : reaped[k].pid = k
        /\ \A k \in 1..(Len(handled) - 1) : reaped[k].status = 0
        /\ pc = "done" =>
            IF exitCode = 0
            THEN /\ handled = names
                 /\ Len(reaped) = Len(names)
                 /\ \A k \in 1..Len(reaped) : reaped[k].status = 0
            ELSE /\ i <= Len(names)
                 /\ Len(handled) \in {i - 1, i}
                 /\ \A k \in 1..(i - 1) : reaped[k].status = 0
                 /\ IF Len(reaped) = i
                    THEN exitCode = StatusResult(reaped[i].status)
                    ELSE exitCode = 1

\* the second of two entries was killed after the first succeeded
C9_Witness ==
    /\ pc = "done"
    /\ ~print
    /\ Len(names) = 2
    /\ handled = names
    /\ reaped = << [pid |-> 1, status |-> 0], [pid |-> 2, status |-> 9] >>
    /\ exitCode = 137

\* C10: at most one child exists that has not been waited for, and it is
\* the child of the entry spawned last: every earlier child was returned by
\* waitpid before the next fork.
C10_OneChild ==
    /\ Cardinality(DOMAIN child) <= 1
    /\ DOMAIN child \subseteq {f}
    /\ \A p \in 1..Len(handled) :
         (~print /\ p # f) => \E k \in 1..Len(reaped) : reaped[k].pid = p

\* the second child runs after the first was reaped
C10_Witness ==
    /\ pc = "relay"
    /\ f = 2
    /\ DOMAIN child = {2}
    /\ child[2].st = "running"
    /\ Len(reaped) = 1
    /\ reaped[1].pid = 1

\* the relayed lines of a sink, in the order they were emitted
RelayLines(out) == SelectSeq(out, LAMBDA r : r.src = "relay")

\* the entry whose path a relayed line carries, 0 when there is none
EntryOf(tag) ==
    IF \E p \in 1..Len(names) : PathOf(p) = tag
    THEN CHOOSE p \in 1..Len(names) : PathOf(p) = tag
    ELSE 0

\* C11: when the child of a later entry has been spawned and is being
\* relayed, no byte that an earlier child wrote was left unread in its pipe,
\* and in the sink every line carries the path of a spawned entry and the
\* lines of an earlier entry all come before the lines of a later one.
C11_DrainedBeforeNext ==
    LET sink == RelayLines(IF slog THEN syslogged ELSE errout)
    IN  /\ (pc = "relay" /\ f >= 2) => dropped = 0
        /\ \A a \in 1..Len(sink) : EntryOf(sink[a].tag) \in 1..f
        /\ \A a, b \in 1..Len(sink) :
             a < b => EntryOf(sink[a].tag) <= EntryOf(sink[b].tag)

\* C12: once readdir has failed before the end of the directory, no entry is
\* ever spawned or printed, and the sequencer exits with status 1.
C12_NoPartialListing ==
    readdirFailed =>
        /\ handled = <<>>
        /\ f = NoPid
        /\ stdout = <<>>
        /\ pc = "done" => exitCode = 1

\* C13: a decoded status has exactly one outcome, fixed by the status alone:
\* a normal exit with code 0 is Success and the loop goes on to the next
\* entry (to exit status 0 after the last); a normal exit
\* with code n > 0 is ExitCode and the sequencer exits with n; a death by
\* signal sg is Signaled and the sequencer exits with sg + 128; every other
\* status is Abnormal, reported, and the sequencer exits with 71; an outcome
\* other than Success leaves the entry the last one spawned.
C13_DecodeTotal ==
    \A k \in 1..Min(Len(outcomes), Len(reaped)) :
        LET st == reaped[k].status
            lo == st % 128
            code == (st \div 256) % 256
            halted(c) == /\ pc = "done"
                         /\ exitCode = c
                         /\ k = Len(outcomes)
                         /\ Len(handled) = k
        IN  /\ outcomes[k] \in {"Success", "ExitCode", "Signaled", "Abnormal"}
            /\ (outcomes[k] = "Success") = (lo = 0 /\ code = 0)
            /\ (outcomes[k] = "ExitCode") = (lo = 0 /\ code # 0)
            /\ (outcomes[k] = "Signaled") = (lo \in 1..126)
            /\ (outcomes[k] = "Abnormal") = (lo = 127)
            /\ outcomes[k] = "Success" =>
                 /\ i > k
                 /\ k = Len(outcomes) => exitCode \in {-1, 0}
            /\ outcomes[k] = "ExitCode" => halted(code)
            /\ outcomes[k] = "Signaled" => halted(lo + 128)
            /\ outcomes[k] = "Abnormal" =>
                 /\ halted(71)
                 /\ \E r \in ReportsOn(PathOf(k)) : errout[r].kind = "failed"

\* the status of a process stopped by signal 19 was decoded
C13_Witness ==
    /\ status = 19 * 256 + 127
    /\ outcomes = <<"Abnormal">>
    /\ pc = "done"
    /\ exitCode = 71
    /\ handled = << <<50>> >>

\* a process blocked in write(): its pipe is full and a read end is open
BlockedOnWrite(c) ==
    c.st = "running" /\ c.wrOpen /\ c.rdOpen /\ Len(c.pipe) >= PipeCap

\* C14: while the sequencer is in waitpid (or past it) no read end of a
\* pipe is open, so no child is blocked in a write; the sequencer got there
\* by the end of the stream or by closing its read end; a child blocked in
\* a write is the child being relayed, whose pipe the sequencer is reading.
C14_NoPipeDeadlock ==
    /\ pc \in {"wait", "decode", "loop", "done"} =>
         /\ \A p \in DOMAIN child :
              ~child[p].rdOpen /\ ~BlockedOnWrite(child[p])
         /\ f # NoPid => relayEnd \in {"eof", "error"}
         /\ (f \in DOMAIN child /\ relayEnd = "eof") => ~child[f].wrOpen
    /\ \A p \in DOMAIN child :
         BlockedOnWrite(child[p]) => pc = "relay" /\ p = f

\* the child filled the pipe, was relayed, closed its stderr and still runs
\* while the sequencer waits for it
C14_Witness ==
    /\ pc = "wait"
    /\ f \in DOMAIN child
    /\ child[f].st = "running"
    /\ Len(child[f].written) = PipeCap
    /\ relayEnd = "eof"

\* C15: the sequencer leaves the read loop of a child only at the end of the
\* child's stream: when it waits for the child, the child's write end is
\* closed and no read has failed.
C15_RelayEndsAtEof ==
    (pc = "wait" /\ f \in DOMAIN child) =>
        /\ ~child[f].wrOpen
        /\ relayEnd = "eof"

\* what main() reported about a failed waitpid
WaitReports ==
    { k \in 1..Len(errout) :
        errout[k].src = "sequence" /\ errout[k].kind = "waitpid" }

\* C16: while the sequencer waits for child f, however often waitpid was
\* interrupted, no status of f has been decoded and no later entry spawned;
\* waitpid is reported as failed only for an error other than EINTR, and
\* then the sequencer has exited with 1 without a status of f and without a
\* later entry; a status is decoded only when waitpid has returned it
\* together with the pid of the child.
C16_WaitRetried ==
    /\ pc = "wait" =>
         /\ eintr \in 0..MaxEintr
         /\ Len(outcomes) = f - 1
         /\ Len(reaped) = f - 1
         /\ Len(handled) = f
         /\ exitCode = -1
    /\ \A k \in WaitReports :
         /\ errout[k].err # "EINTR"
         /\ k = Len(errout)
         /\ pc = "done"
         /\ exitCode = 1
         /\ Len(outcomes) = f /\ outcomes[f] = "WaitFail"
         /\ Len(reaped) = f - 1
         /\ Len(handled) = f
    /\ pc = "decode" =>
         /\ Len(reaped) = f
         /\ reaped[f] = [pid |-> f, status |-> status]
         /\ Len(outcomes) = f - 1
    /\ \A k \in 1..Len(outcomes) :
         outcomes[k] \in {"Success", "ExitCode", "Signaled", "Abnormal"}
         => k <= Len(reaped) /\ reaped[k].pid = k

\* waitpid was interrupted as often as the bound allows, then returned the
\* pid of the second child
C16_Witness ==
    /\ pc = "decode"
    /\ f = 2
    /\ eintr = MaxEintr
    /\ reaped[2].pid = 2

C18_LogChannel ==
    IF slog
    THEN /\ \A k \in 1..Len(logops) :
              logops[k] = (IF k % 2 = 1 THEN "openlog" ELSE "closelog")
         /\ Len(logops) = (IF pc = "relay" THEN 2 * f - 1 ELSE 2 * f)
         /\ (logtag # NoIdent) = (pc = "relay")
         /\ pc = "relay" => logtag = PathOf(f)
         /\ \A k \in 1..Len(errout) : errout[k].src = "sequence"
         /\ \A k \in 1..Len(syslogged) :
              /\ syslogged[k].level = level
              /\ EntryOf(syslogged[k].tag) \in 1..f
         /\ (pc = "wait" /\ relayEnd = "eof" /\ f \in DOMAIN child
                /\ child[f].written # <<>>)
            => TextsOf(syslogged, PathOf(f)) # <<>>
    ELSE /\ logops = <<>>
         /\ logtag = NoIdent
         /\ syslogged = <<>>

\* two entries were spawned and logged; the second read loop ended on a
\* failed read and the sequencer has exited
C18_Witness ==
    /\ slog
    /\ pc = "done"
    /\ f = 2
    /\ logops = <<"openlog", "closelog", "openlog", "closelog">>
    /\ relayEnd = "error"
    /\ Len(syslogged) = 2
    /\ syslogged[1].tag # syslogged[2].tag

\* C19: every child's argument vector is the path of its entry,
\* directory "/" name, followed by the arguments that follow the directory
\* on the command line, in their order and nothing else; these arguments
\* are the same for every entry, whatever was stored in the slot of the
\* directory argument (a path, or NULL after an entry) in the meantime.
C19_ChildArgv ==
    /\ passargs \in PassArgs
    /\ \A p \in DOMAIN child :
         /\ Len(child[p].argv) = 1 + Len(passargs)
         /\ child[p].argv[1] = dirname \o <<47>> \o names[p]
         /\ \A k \in 1..Len(passargs) : child[p].argv[k + 1] = passargs[k]
    /\ pc \in {"relay", "wait", "decode"} => argvslot = PathOf(f)

\* the second child was forked after the slot had held the first path and
\* then NULL
C19_Witness ==
    /\ f = 2
    /\ 2 \in DOMAIN child
    /\ names = << <<49, 48>>, <<57>> >>
    /\ child[2].argv = << <<100, 47, 57>>, <<115>>, <<116>> >>
    /\ argvslot = <<100, 47, 57>>
    /\ outcomes = <<"Success">>

\* the part of C20 about termination alone: every run reaches a terminal
\* state, with an exit status
C20_Terminates == <>(pc = "done" /\ exitCode \in 0..255)

\* C20: every run reaches a terminal state with an exit status, and
\* whenever the sequencer waits for a child, that child's stream has ended:
\* the child has closed its end of the pipe.
C20_Termination ==
    /\ <>(pc = "done" /\ exitCode \in 0..255)
    /\ []((pc = "wait" /\ f \in DOMAIN child) => ~child[f].wrOpen)

====
